---- MODULE Spec2Model ----
(***************************************************************************)
(* State-machine model of the iced text editor (src/src/main.rs).          *)
(*                                                                         *)
(* The program state is the Editor struct; the file system and the file    *)
(* dialogs are its environment.  One action per Message variant handled    *)
(* by Editor::update.  ev is a history variable recording the message      *)
(* handled last together with the results its collaborators returned.      *)
(***************************************************************************)
EXTENDS Integers, Sequences, FiniteSets, TLC

VARIABLES path, content, dirty, color_theme, highlighter_theme, disk, ev, snapshot

vars == <<path, content, dirty, color_theme, highlighter_theme, disk, ev, snapshot>>

\* The document state of the lifecycle state machine.
doc == <<path, content, dirty>>

-----------------------------------------------------------------------------
(* Bounds and value domains *)

\* Largest buffer considered together with the file system: characters plus
\* line separators.
MaxChars == 1

\* Largest buffer considered when only the buffer and its cursor matter.
MaxBuf == 4

\* Longest path name considered by the view.
MaxPathLen == 4

\* Option::None of Option<PathBuf>, and of the Option<&str> of the view; a
\* path or a name that is present is a non-empty sequence of characters.
None == <<>>
NL == "\n"

Chars == {"a"}

\* The characters of path names; BadChar stands for bytes that are not valid
\* Unicode.
BadChar == "#"
PathChars == {"a", "c", ".", "/", BadChar}

\* The paths the dialogs return: a file with a suffix, a file without one.
Paths == {<<"a", ".", "a">>, <<"a">>}
ColorThemes == {"GruvboxDark", "Light"}
HighlighterThemes == {"Base16Mocha", "SolarizedDark"}

Min(a, b) == IF a < b THEN a ELSE b

-----------------------------------------------------------------------------
(* widget::text_editor::Content *)

\* The lines of a buffer joined with '\n'.
RECURSIVE JoinLines(_)
JoinLines(ls) ==
    IF Len(ls) = 0 THEN <<>>
    ELSE IF Len(ls) = 1 THEN ls[1]
    ELSE ls[1] \o <<NL>> \o JoinLines(Tail(ls))

\* Index of the first '\n' of t at or after i, 0 when there is none.
RECURSIVE FirstNL(_, _)
FirstNL(t, i) ==
    IF i > Len(t) THEN 0
    ELSE IF t[i] = NL THEN i
    ELSE FirstNL(t, i + 1)

\* The lines of a text: every '\n' ends one line and starts the next, so a
\* text always has one line more than it has '\n'.
RECURSIVE SplitLines(_)
SplitLines(t) ==
    LET i == FirstNL(t, 1)
    IN  IF i = 0 THEN <<t>>
        ELSE <<SubSeq(t, 1, i - 1)>> \o SplitLines(SubSeq(t, i + 1, Len(t)))

\* A cursor position: zero-based line and column.
Pos(line, col) == [line |-> line, col |-> col]

\* A buffer: its lines, its cursor, and its selection, which is <<>> when
\* there is none and otherwise the pair <<start, end>> of two different
\* positions in order, one of which is the cursor.
Buffer(ls, cursor, selection) ==
    [lines |-> ls, cursor |-> cursor, selection |-> selection]

\* Content::with_text: a buffer holding the lines of t, cursor at the start,
\* nothing selected.  The library's conversion between a text and its lines
\* is taken to be the plain split at '\n'; what the library does with a
\* final newline or with "\r\n" is not known from the sources at hand.
with_text(t) == Buffer(SplitLines(t), Pos(0, 0), <<>>)

\* Content::new: the buffer of the empty text.
Content_new == with_text(<<>>)

\* Content::text: the lines joined with '\n' (see with_text).
text(c) == JoinLines(c.lines)

\* Size of a buffer, the quantity MaxChars and MaxBuf bound.
Size(c) == Len(text(c))

-----------------------------------------------------------------------------
(* widget::text_editor::Action and Content::perform *)

\* The positions a click, a drag or a SelectTo can name; some lie outside
\* the smaller buffers.
Positions == {Pos(i, k) : i \in 0 .. 2, k \in 0 .. 2}

\* The texts a Paste can bring.
PasteTexts == {<<"a">>, <<NL, "a">>}

Edits == {<<"Edit", "Insert", c>> : c \in Chars}
             \cup {<<"Edit", "Enter">>, <<"Edit", "Backspace">>, <<"Edit", "Delete">>}
             \cup {<<"Edit", "Paste", t>> : t \in PasteTexts}
Motions == {"Left", "Right", "Up", "Down", "Home", "End"}
Moves == {<<"Move", m>> : m \in Motions}
Selects == {<<"SelectTo", p>> : p \in Positions}
Gestures == {<<"Click", p>> : p \in Positions} \cup {<<"Drag", p>> : p \in Positions}
Actions == Edits \cup Moves \cup Selects \cup Gestures

\* Action::is_edit: true of the Edit variant only.
is_edit(action) == action[1] = "Edit"

\* ls with the n lines from line number i (1-based) on replaced by the lines new.
ReplaceLines(ls, i, n, new) ==
    SubSeq(ls, 1, i - 1) \o new \o SubSeq(ls, i + n, Len(ls))

\* p is before q in the buffer.
Before(p, q) == p.line < q.line \/ (p.line = q.line /\ p.col < q.col)

\* The position of ls nearest to p: a line of ls, a column of that line.
Clamp(ls, p) ==
    LET i == Min(p.line, Len(ls) - 1)
    IN  Pos(i, Min(p.col, Len(ls[i + 1])))

\* How many characters and line separators of ls come before position p.
RECURSIVE Offset(_, _)
Offset(ls, p) ==
    IF p.line = 0 THEN p.col
    ELSE Len(ls[1]) + 1 + Offset(Tail(ls), Pos(p.line - 1, p.col))

\* c without the text of its selection: the cursor becomes the selection's
\* start; c itself when nothing is selected.
DeleteSelection(c) ==
    IF c.selection = <<>> THEN c
    ELSE LET t == JoinLines(c.lines)
             a == Offset(c.lines, c.selection[1])
             b == Offset(c.lines, c.selection[2])
         IN  Buffer(SplitLines(SubSeq(t, 1, a) \o SubSeq(t, b + 1, Len(t))),
                    c.selection[1], <<>>)

\* InsertChar: a selection is deleted first, then ch goes in at the cursor.
InsertChar(c, ch) ==
    LET d == DeleteSelection(c)
        i == d.cursor.line + 1
        k == d.cursor.col
        l == d.lines[i]
    IN  Buffer(ReplaceLines(d.lines, i, 1,
                   << SubSeq(l, 1, k) \o <<ch>> \o SubSeq(l, k + 1, Len(l)) >>),
               Pos(d.cursor.line, k + 1), <<>>)

\* InsertNewline: the line is split at the cursor; a selection is replaced
\* as by InsertChar.
InsertNewline(c) ==
    LET d == DeleteSelection(c)
        i == d.cursor.line + 1
        k == d.cursor.col
        l == d.lines[i]
    IN  Buffer(ReplaceLines(d.lines, i, 1,
                   << SubSeq(l, 1, k), SubSeq(l, k + 1, Len(l)) >>),
               Pos(d.cursor.line + 1, 0), <<>>)

\* Backspace
Backspace(c) ==
    LET i == c.cursor.line + 1
        k == c.cursor.col
        l == c.lines[i]
    IN  IF c.selection # <<>> THEN DeleteSelection(c)
        ELSE IF k > 0
        THEN Buffer(ReplaceLines(c.lines, i, 1,
                        << SubSeq(l, 1, k - 1) \o SubSeq(l, k + 1, Len(l)) >>),
                    Pos(c.cursor.line, k - 1), <<>>)
        ELSE IF c.cursor.line > 0
        THEN Buffer(ReplaceLines(c.lines, i - 1, 2, << c.lines[i - 1] \o l >>),
                    Pos(c.cursor.line - 1, Len(c.lines[i - 1])), <<>>)
        ELSE c

\* Delete: the mirror of Backspace.
Delete(c) ==
    LET i == c.cursor.line + 1
        k == c.cursor.col
        l == c.lines[i]
    IN  IF c.selection # <<>> THEN DeleteSelection(c)
        ELSE IF k < Len(l)
        THEN Buffer(ReplaceLines(c.lines, i, 1,
                        << SubSeq(l, 1, k) \o SubSeq(l, k + 2, Len(l)) >>),
                    c.cursor, <<>>)
        ELSE IF i < Len(c.lines)
        THEN Buffer(ReplaceLines(c.lines, i, 2, << l \o c.lines[i + 1] >>), c.cursor, <<>>)
        ELSE c

\* MoveCursor whose Up and Down keep the column instead of clamping it to
\* the target line.
MoveCursor_keeps_column(c, m) ==
    LET i == c.cursor.line + 1
        k == c.cursor.col
        l == c.lines[i]
        to(line, col) == Buffer(c.lines, Pos(line, col), <<>>)
    IN  CASE m = "Left"  -> IF k > 0 THEN to(i - 1, k - 1)
                            ELSE IF i > 1 THEN to(i - 2, Len(c.lines[i - 1]))
                            ELSE to(i - 1, k)
          [] m = "Right" -> IF k < Len(l) THEN to(i - 1, k + 1)
                            ELSE IF i < Len(c.lines) THEN to(i, 0)
                            ELSE to(i - 1, k)
          [] m = "Up"    -> IF i > 1 THEN to(i - 2, k) ELSE to(i - 1, k)
          [] m = "Down"  -> IF i < Len(c.lines) THEN to(i, k) ELSE to(i - 1, k)
          [] m = "Home"  -> to(i - 1, 0)
          [] m = "End"   -> to(i - 1, Len(l))

\* MoveCursor: the cursor moves and nothing stays selected.
MoveCursor(c, m) ==
    LET i == c.cursor.line + 1
        k == c.cursor.col
        l == c.lines[i]
        to(line, col) == Buffer(c.lines, Pos(line, col), <<>>)
    IN  CASE m = "Left"  -> IF k > 0 THEN to(i - 1, k - 1)
                            ELSE IF i > 1 THEN to(i - 2, Len(c.lines[i - 1]))
                            ELSE to(i - 1, k)
          [] m = "Right" -> IF k < Len(l) THEN to(i - 1, k + 1)
                            ELSE IF i < Len(c.lines) THEN to(i, 0)
                            ELSE to(i - 1, k)
          [] m = "Up"    -> IF i > 1 THEN to(i - 2, Min(k, Len(c.lines[i - 1])))
                            ELSE to(i - 1, k)
          [] m = "Down"  -> IF i < Len(c.lines) THEN to(i, Min(k, Len(c.lines[i + 1])))
                            ELSE to(i - 1, k)
          [] m = "Home"  -> to(i - 1, 0)
          [] m = "End"   -> to(i - 1, Len(l))

\* SelectTo: the cursor goes to the position of the buffer nearest to p and
\* the selection runs between it and the end that stays (the cursor before
\* the first SelectTo), in order; nothing is selected when the two meet.
SelectTo(c, p) ==
    LET q == Clamp(c.lines, p)
        anchor == IF c.selection = <<>> THEN c.cursor
                  ELSE IF c.selection[1] = c.cursor THEN c.selection[2]
                  ELSE c.selection[1]
    IN  Buffer(c.lines, q,
               IF q = anchor THEN <<>>
               ELSE IF Before(q, anchor) THEN <<q, anchor>> ELSE <<anchor, q>>)

\* A click puts the cursor at the position of the buffer nearest to p.
Click(c, p) == Buffer(c.lines, Clamp(c.lines, p), <<>>)

\* Paste: the characters of t go in one after the other, a '\n' as
\* InsertNewline and any other as InsertChar.
RECURSIVE Paste(_, _)
Paste(c, t) ==
    IF t = <<>> THEN c
    ELSE Paste(IF Head(t) = NL THEN InsertNewline(c) ELSE InsertChar(c, Head(t)), Tail(t))

\* Content::perform
perform(c, action) ==
    CASE action[1] = "Move"     -> MoveCursor(c, action[2])
      [] action[1] = "SelectTo" -> SelectTo(c, action[2])
      [] action[1] = "Drag"     -> SelectTo(c, action[2])
      [] action[1] = "Click"    -> Click(c, action[2])
      [] action[1] = "Edit"     ->
           CASE action[2] = "Insert"    -> InsertChar(c, action[3])
             [] action[2] = "Enter"     -> InsertNewline(c)
             [] action[2] = "Backspace" -> Backspace(c)
             [] action[2] = "Delete"    -> Delete(c)
             [] action[2] = "Paste"     -> Paste(c, action[3])

-----------------------------------------------------------------------------
(* The file system and the file dialogs *)

\* What a dialog can return: no selection, or a path.
DialogResults == {None} \cup Paths

\* A path of the file system names no file, or a file holding a text.
NoFile == [present |-> FALSE, data |-> <<>>]
File(t) == [present |-> TRUE, data |-> t]

\* fs::read_to_string(p): the file's text, or an error; a file that does
\* not exist cannot be read.
ReadErr == [ok |-> FALSE, data |-> <<>>]
ReadResults(p) ==
    {ReadErr} \cup (IF disk[p].present THEN {[ok |-> TRUE, data |-> disk[p].data]} ELSE {})

\* fs::write(p, data) is File::create, which creates or truncates the file,
\* followed by write_all, which can fail after any number of bytes short of
\* all of them.  An outcome says whether the call returned Ok, whether the
\* file was opened (and so truncated), and how many characters of data
\* reached it.
Unopened == [ok |-> FALSE, opened |-> FALSE, written |-> 0]
WriteOutcomes(data) ==
    {[ok |-> TRUE, opened |-> TRUE, written |-> Len(data)], Unopened}
        \cup {[ok |-> FALSE, opened |-> TRUE, written |-> n] : n \in 0 .. Len(data) - 1}

\* The file at p after fs::write(p, data) ended with outcome w.
fs_write(p, data, w) ==
    IF w.opened THEN File(SubSeq(data, 1, w.written)) ELSE disk[p]

\* env::current_dir(): the working directory, or an error when it is
\* unavailable (removed, or not accessible).
CwdResults == {"ok", "err"}

\* Files present before the editor starts.
InitFiles == {NoFile, File(<<"a">>)}

\* The message handled last: its variant, its action (EditorAction), what the
\* dialog returned, and how the read or write ended ("none" when there was
\* none).
NoEvent ==
    [msg |-> "none", action |-> <<>>, picked |-> None, io |-> "none"]

-----------------------------------------------------------------------------
(* Editor *)

\* Editor::new starting with a clean document.
Init_clean ==
    /\ path = None
    /\ content = Content_new
    /\ dirty = FALSE
    /\ color_theme = "GruvboxDark"
    /\ highlighter_theme = "Base16Mocha"
    /\ disk \in [Paths -> InitFiles]
    /\ ev = NoEvent
    /\ snapshot = NoFile

\* Editor::new
Init ==
    /\ path = None
    /\ content = Content_new
    /\ dirty = TRUE
    /\ color_theme = "GruvboxDark"
    /\ highlighter_theme = "Base16Mocha"
    /\ disk \in [Paths -> InitFiles]
    /\ ev = NoEvent
    /\ snapshot = NoFile

\* EditorAction marking the document dirty only when the edit changed the buffer.
EditorAction_dirty_on_change(action) ==
    /\ dirty' = IF is_edit(action) /\ perform(content, action) # content THEN TRUE ELSE dirty
    /\ content' = perform(content, action)
    /\ ev' = [msg |-> "EditorAction", action |-> action, picked |-> None, io |-> "none"]
    /\ UNCHANGED <<path, color_theme, highlighter_theme, disk, snapshot>>

\* EditorAction marking the document dirty whatever the action.
EditorAction_always_dirty(action) ==
    /\ dirty' = TRUE
    /\ content' = perform(content, action)
    /\ ev' = [msg |-> "EditorAction", action |-> action, picked |-> None, io |-> "none"]
    /\ UNCHANGED <<path, color_theme, highlighter_theme, disk, snapshot>>

\* Message::EditorAction
EditorAction(action) ==
    /\ dirty' = IF is_edit(action) THEN TRUE ELSE dirty
    /\ content' = perform(content, action)
    /\ ev' = [msg |-> "EditorAction", action |-> action, picked |-> None, io |-> "none"]
    /\ UNCHANGED <<path, color_theme, highlighter_theme, disk, snapshot>>

\* open_file without the reset of path after a failed read.
open_file_keeps_path(picked, read) ==
    IF picked # None THEN <<picked, read.data>> ELSE <<None, <<>>>>

\* open_file: the picked path and the text read from it; no path when the
\* dialog was cancelled or the read failed.
open_file(picked, read) ==
    IF picked # None /\ read.ok THEN <<picked, read.data>> ELSE <<None, <<>>>>

\* OpenFile without the reset of dirty.
OpenFile_keeps_dirty(picked, read) ==
    LET r == open_file(picked, read)
    IN  /\ IF r[1] # None
           THEN /\ path' = r[1]
                /\ content' = with_text(r[2])
                /\ snapshot' = File(text(with_text(r[2])))
                /\ UNCHANGED dirty
           ELSE UNCHANGED <<path, content, dirty, snapshot>>
        /\ ev' = [msg |-> "OpenFile", action |-> <<>>, picked |-> picked,
                  io |-> IF picked = None THEN "none"
                         ELSE IF read.ok THEN "ok" ELSE "fail"]
        /\ UNCHANGED <<color_theme, highlighter_theme, disk>>

\* Message::OpenFile
OpenFile(picked, read) ==
    LET r == open_file(picked, read)
    IN  /\ IF r[1] # None
           THEN /\ path' = r[1]
                /\ content' = with_text(r[2])
                /\ dirty' = FALSE
                /\ snapshot' = File(text(with_text(r[2])))
           ELSE UNCHANGED <<path, content, dirty, snapshot>>
        /\ ev' = [msg |-> "OpenFile", action |-> <<>>, picked |-> picked,
                  io |-> IF picked = None THEN "none"
                         ELSE IF read.ok THEN "ok" ELSE "fail"]
        /\ UNCHANGED <<color_theme, highlighter_theme, disk>>

\* NewFile emptying the buffer but keeping its cursor.
NewFile_keeps_cursor ==
    /\ path' = None
    /\ content' = Buffer(Content_new.lines, content.cursor, <<>>)
    /\ ev' = [msg |-> "NewFile", action |-> <<>>, picked |-> None, io |-> "none"]
    /\ UNCHANGED <<dirty, color_theme, highlighter_theme, disk, snapshot>>

\* NewFile marking the new document dirty.
NewFile_marks_dirty ==
    /\ path' = None
    /\ content' = Content_new
    /\ dirty' = TRUE
    /\ ev' = [msg |-> "NewFile", action |-> <<>>, picked |-> None, io |-> "none"]
    /\ UNCHANGED <<color_theme, highlighter_theme, disk, snapshot>>

\* NewFile without the reset of path.
NewFile_keeps_path ==
    /\ content' = Content_new
    /\ ev' = [msg |-> "NewFile", action |-> <<>>, picked |-> None, io |-> "none"]
    /\ UNCHANGED <<path, dirty, color_theme, highlighter_theme, disk, snapshot>>

\* Message::NewFile
NewFile ==
    /\ path' = None
    /\ content' = Content_new
    /\ ev' = [msg |-> "NewFile", action |-> <<>>, picked |-> None, io |-> "none"]
    /\ UNCHANGED <<dirty, color_theme, highlighter_theme, disk, snapshot>>

\* SaveFile clearing dirty whether or not there is a path to write to.
SaveFile_always_clean(picked, w) ==
    LET p == IF path = None THEN picked ELSE path
    IN  /\ path' = p
        /\ IF p # None
           THEN /\ disk' = [disk EXCEPT ![p] = fs_write(p, text(content), w)]
                /\ snapshot' = IF w.ok THEN File(text(content)) ELSE snapshot
           ELSE UNCHANGED <<disk, snapshot>>
        /\ dirty' = FALSE
        /\ ev' = [msg |-> "SaveFile", action |-> <<>>, picked |-> picked,
                  io |-> IF p = None THEN "none" ELSE IF w.ok THEN "ok" ELSE "fail"]
        /\ UNCHANGED <<content, color_theme, highlighter_theme>>

\* Message::SaveFile; picked is what save_new_file returns when it is called,
\* w the outcome of fs::write when it is called.
SaveFile(picked, w) ==
    LET p == IF path = None THEN picked ELSE path
    IN  /\ path' = p
        /\ IF p # None
           THEN /\ disk' = [disk EXCEPT ![p] = fs_write(p, text(content), w)]
                /\ dirty' = FALSE
                /\ snapshot' = IF w.ok THEN File(text(content)) ELSE snapshot
           ELSE UNCHANGED <<disk, dirty, snapshot>>
        /\ ev' = [msg |-> "SaveFile", action |-> <<>>, picked |-> picked,
                  io |-> IF p = None THEN "none" ELSE IF w.ok THEN "ok" ELSE "fail"]
        /\ UNCHANGED <<content, color_theme, highlighter_theme>>

\* ColorThemeChange picking the syntax theme that goes with the color theme.
ColorThemeChange_coupled(theme) ==
    /\ color_theme' = theme
    /\ highlighter_theme' = IF theme = "Light" THEN "SolarizedDark" ELSE "Base16Mocha"
    /\ ev' = [msg |-> "ColorThemeChange", action |-> <<>>, picked |-> None, io |-> "none"]
    /\ UNCHANGED <<path, content, dirty, disk, snapshot>>

\* Message::ColorThemeChange
ColorThemeChange(theme) ==
    /\ color_theme' = theme
    /\ ev' = [msg |-> "ColorThemeChange", action |-> <<>>, picked |-> None, io |-> "none"]
    /\ UNCHANGED <<path, content, dirty, highlighter_theme, disk, snapshot>>

\* Message::HighlighterThemeChange
HighlighterThemeChange(theme) ==
    /\ highlighter_theme' = theme
    /\ ev' = [msg |-> "HighlighterThemeChange", action |-> <<>>, picked |-> None,
              io |-> "none"]
    /\ UNCHANGED <<path, content, dirty, color_theme, disk, snapshot>>

\* A panic while msg is handled: an unwrap() of None or Err unwinds out of the
\* handler and ends the program; the Editor is left as it was.
Panic(msg) ==
    /\ ev' = [msg |-> msg, action |-> <<>>, picked |-> None, io |-> "panic"]
    /\ UNCHANGED <<path, content, dirty, color_theme, highlighter_theme, disk, snapshot>>

\* The program has panicked: it handles no further message.
Panicked == ev.io = "panic"

\* The inputs of one OpenFile: the working directory, which open_file
\* unwraps, the dialog's result and, when a path was picked, the result of
\* reading it.
OpenFileStep ==
    \E cwd \in CwdResults :
        IF cwd = "err" THEN Panic("OpenFile")
        ELSE \E picked \in DialogResults :
                 \E read \in (IF picked = None THEN {ReadErr} ELSE ReadResults(picked)) :
                     OpenFile(picked, read)

\* The inputs of one SaveFile: the dialog is asked only when there is no
\* path, and save_new_file unwraps the working directory before it asks; the
\* file is written only when there is a path after that.
SaveFileStep ==
    \E cwd \in (IF path = None THEN CwdResults ELSE {"ok"}) :
        IF cwd = "err" THEN Panic("SaveFile")
        ELSE \E picked \in (IF path = None THEN DialogResults ELSE {None}) :
                 \E w \in (IF path = None /\ picked = None
                            THEN {Unopened} ELSE WriteOutcomes(text(content))) :
                     SaveFile(picked, w)

\* Editor::update, for as long as the program runs.  With the file system in
\* the state, the actions drawn are the edits and the cursor movements, on
\* buffers of at most MaxChars; BufferSpec draws every action.
Next ==
    \/ ~Panicked /\ \E action \in Edits \cup Moves :
           Size(perform(content, action)) <= MaxChars /\ EditorAction(action)
    \/ ~Panicked /\ OpenFileStep
    \/ ~Panicked /\ NewFile
    \/ ~Panicked /\ SaveFileStep
    \/ ~Panicked /\ \E theme \in ColorThemes : ColorThemeChange(theme)
    \/ ~Panicked /\ \E theme \in HighlighterThemes : HighlighterThemeChange(theme)

Spec == Init /\ [][Next]_vars

-----------------------------------------------------------------------------
(* The buffer under every action *)

\* Files present before the editor starts: a file of two lines.
BufferFiles == {NoFile, File(<<"a", NL>>)}

\* Editor::new, next to files that are not written again.
BufferInit ==
    /\ path = None
    /\ content = Content_new
    /\ dirty = TRUE
    /\ color_theme = "GruvboxDark"
    /\ highlighter_theme = "Base16Mocha"
    /\ disk \in [Paths -> BufferFiles]
    /\ ev = NoEvent
    /\ snapshot = NoFile

\* Editor::update for the messages that change the buffer: every action, on
\* buffers of at most MaxBuf, and New and Open.
BufferNext ==
    \/ ~Panicked /\ \E action \in Actions :
           Size(perform(content, action)) <= MaxBuf /\ EditorAction(action)
    \/ ~Panicked /\ OpenFileStep
    \/ ~Panicked /\ NewFile

BufferSpec == BufferInit /\ [][BufferNext]_vars

-----------------------------------------------------------------------------
(* Editor::view *)

\* Every path name of at most MaxPathLen characters.
PathNames == UNION {[1 .. n -> PathChars] : n \in 1 .. MaxPathLen}

\* The extension handed to the highlighter when there is none to derive.
TXT == <<"t", "x", "t">>

\* Index of the last occurrence of ch in t at or before i, 0 when there is none.
RECURSIVE LastIndex(_, _, _)
LastIndex(t, ch, i) ==
    IF i = 0 THEN 0
    ELSE IF t[i] = ch THEN i
    ELSE LastIndex(t, ch, i - 1)

\* Path::components().next_back(): the last component of p.  Empty
\* components and "." components are skipped, except that a path that is
\* nothing else ends in its root "/" when it starts with one and in "." when
\* it starts with that; None when p is empty.
RECURSIVE LastComponent(_)
LastComponent(p) ==
    IF p = <<>> THEN None
    ELSE LET i == LastIndex(p, "/", Len(p))
             c == SubSeq(p, i + 1, Len(p))
         IN  IF i = 0 THEN c
             ELSE IF c # <<>> /\ c # <<".">> THEN c
             ELSE IF i = 1 THEN <<"/">>
             ELSE LastComponent(SubSeq(p, 1, i - 1))

\* Path::file_name: the last component of p when it is a normal one, that
\* is neither the root, nor ".", nor "..".
file_name(p) ==
    IF LastComponent(p) \in {<<"/">>, <<".">>, <<".", ".">>} THEN None
    ELSE LastComponent(p)

\* Path::extension: what follows the last '.' of the file name, when the
\* name has a '.' that is not its first character; <<TRUE, e>> stands for
\* Some(e), <<FALSE>> for None.
extension(p) ==
    LET n == file_name(p)
        i == LastIndex(n, ".", Len(n))
    IN  IF n = None \/ i <= 1 THEN <<FALSE>>
        ELSE <<TRUE, SubSeq(n, i + 1, Len(n))>>

\* OsStr::to_str: the name itself when it is valid Unicode.
to_str(name) ==
    IF \E i \in 1 .. Len(name) : name[i] = BadChar THEN <<FALSE>> ELSE <<TRUE, name>>

\* view_extension taking what follows the last '.' of the whole path.
view_extension_of_whole_path(p) ==
    LET i == LastIndex(p, ".", Len(p))
    IN  IF p = None \/ i = 0 THEN TXT
        ELSE IF to_str(SubSeq(p, i + 1, Len(p)))[1] THEN SubSeq(p, i + 1, Len(p))
        ELSE TXT

\* The extension of highlighter::Settings:
\* path.as_ref().and_then(|path| path.extension()?.to_str()).unwrap_or("txt")
view_extension(p) ==
    IF p = None THEN TXT
    ELSE IF ~extension(p)[1] THEN TXT
    ELSE IF ~to_str(extension(p)[2])[1] THEN TXT
    ELSE to_str(extension(p)[2])[2]

\* The message of the Save button: on_press_maybe(dirty.then_some(SaveFile)).
save_button(d) == IF d THEN "SaveFile" ELSE "none"

\* One render pass.  ev records what the view hands to the highlighter and to
\* the Save button; the text of the status bar unwraps path.to_str().
View ==
    /\ ev' = [msg |-> "view", action |-> <<>>, picked |-> None,
              io |-> IF path # None /\ ~to_str(path)[1] THEN "panic" ELSE "none",
              extension |-> view_extension(path), theme |-> highlighter_theme,
              save |-> save_button(dirty)]
    /\ UNCHANGED <<path, content, dirty, color_theme, highlighter_theme, disk, snapshot>>

\* Any Editor the view can be asked to render.
ViewInit ==
    /\ path \in {None} \cup PathNames
    /\ content \in {Content_new, with_text(<<"a">>)}
    /\ dirty \in BOOLEAN
    /\ color_theme \in ColorThemes
    /\ highlighter_theme \in HighlighterThemes
    /\ disk = [p \in Paths |-> NoFile]
    /\ ev = NoEvent
    /\ snapshot = NoFile

ViewNext == ~Panicked /\ View

ViewSpec == ViewInit /\ [][ViewNext]_vars

-----------------------------------------------------------------------------
(* Editor::subscription: the keyboard shortcuts *)

\* keyboard::Key values: a character key, a named key, an unidentified key.
Keys ==
    {<<"Character", c>> : c \in {"s", "o", "n", "a", "S"}}
        \cup {<<"Named", "Enter">>, <<"Named", "Escape">>, <<"Unidentified">>}

\* keyboard::Modifiers values: the set of the modifier keys held.
ModifierSets == SUBSET {"SHIFT", "CTRL", "ALT", "LOGO"}

Platforms == {"macos", "other"}

\* Modifiers::command: the platform's primary modifier is held.
command(modifiers, platform) ==
    (IF platform = "macos" THEN "LOGO" ELSE "CTRL") \in modifiers

\* on_key_press that does not look at the modifiers.
on_key_press_any_modifiers(key_code, cmd) ==
    IF key_code[1] = "Character"
    THEN CASE key_code[2] = "s" -> "SaveFile"
           [] key_code[2] = "o" -> "OpenFile"
           [] key_code[2] = "n" -> "NewFile"
           [] OTHER -> "none"
    ELSE "none"

\* The closure given to keyboard::on_key_press: the Message of a key press,
\* "none" when it has none; cmd is modifiers.command().
on_key_press(key_code, cmd) ==
    IF key_code[1] = "Character" /\ cmd
    THEN CASE key_code[2] = "s" -> "SaveFile"
           [] key_code[2] = "o" -> "OpenFile"
           [] key_code[2] = "n" -> "NewFile"
           [] OTHER -> "none"
    ELSE "none"

\* A key press reaches the subscription; ev records the key event and the
\* Message the subscription emits for it.
KeyPress(key_code, modifiers, platform) ==
    /\ ev' = [msg |-> on_key_press(key_code, command(modifiers, platform)),
              action |-> <<>>, picked |-> None, io |-> "none",
              key |-> key_code, modifiers |-> modifiers, platform |-> platform]
    /\ UNCHANGED <<path, content, dirty, color_theme, highlighter_theme, disk, snapshot>>

\* Any document state the shortcuts can be used in.
RouterInit ==
    /\ path \in {None} \cup Paths
    /\ content = Content_new
    /\ dirty \in BOOLEAN
    /\ color_theme = "GruvboxDark"
    /\ highlighter_theme = "Base16Mocha"
    /\ disk = [p \in Paths |-> NoFile]
    /\ ev = NoEvent
    /\ snapshot = NoFile

RouterNext ==
    \E key_code \in Keys, modifiers \in ModifierSets, platform \in Platforms :
        KeyPress(key_code, modifiers, platform)

RouterSpec == RouterInit /\ [][RouterNext]_vars

-----------------------------------------------------------------------------
(* Properties of the document lifecycle *)

\* A step that handled an OpenFile whose dialog was cancelled or whose read failed.
FailedOpen(e) == e.msg = "OpenFile" /\ e.io # "ok"

\* A step that handled a SaveFile whose write was attempted and failed.
FailedSave(e) == e.msg = "SaveFile" /\ e.io = "fail"

\* C1: an OpenFile whose dialog is cancelled or whose read fails leaves path,
\* buffer content and dirty exactly as they were.
C1_FailedOpenChangesNothing ==
    [][FailedOpen(ev') => UNCHANGED <<path, content, dirty>>]_vars

\* The read of a picked file has just failed on a saved-to, edited, non-empty document.
C1_Witness ==
    /\ ev.msg = "OpenFile" /\ ev.picked # None /\ ev.io = "fail"
    /\ path # None /\ dirty /\ Size(content) > 0

\* C2: a SaveFile on a dirty document whose disk write fails leaves dirty = true.
C2_FailedSaveKeepsDirty ==
    [][(dirty /\ FailedSave(ev')) => dirty']_vars

\* C3: New, Open and Save are transactional on (path, content, dirty): a
\* command that does not complete changes nothing; in particular a SaveFile
\* on an untitled document whose dialog returns a path and whose write fails
\* leaves path = none, and content and dirty as before.
C3_Transactional ==
    [][(FailedOpen(ev') \/ FailedSave(ev')) => UNCHANGED <<path, content, dirty>>]_vars

\* C4: with path = none, a SaveFile whose save dialog is cancelled leaves
\* path = none, dirty and the buffer unchanged, and writes no file.
C4_CancelledSaveChangesNothing ==
    [][(path = None /\ ev'.msg = "SaveFile" /\ ev'.picked = None)
          => (path' = None /\ UNCHANGED <<content, dirty, disk>>)]_vars

\* The save dialog has just been cancelled on an untitled, edited, non-empty document.
C4_Witness ==
    /\ ev.msg = "SaveFile" /\ ev.io = "none"
    /\ path = None /\ dirty /\ Size(content) > 0

\* C5: an EditorAction classified as an edit sets dirty = true and leaves path
\* unchanged, whatever the state it is applied in.
C5_EditSetsDirty ==
    [][(ev'.msg = "EditorAction" /\ is_edit(ev'.action))
          => (dirty' /\ path' = path)]_vars

\* An edit has just been applied to a document that has a path.
C5_Witness ==
    ev.msg = "EditorAction" /\ is_edit(ev.action) /\ path # None /\ dirty

\* The buffer's text differs from the text it had at the last successful
\* load or save; a document never loaded or saved differs from it.
DiffersFromSnapshot == ~snapshot.present \/ text(content) # snapshot.data

\* C6: in every reachable state dirty is true if and only if the buffer's
\* text differs from the last successfully loaded or saved snapshot.
C6_DirtyIffDiffers == dirty <=> DiffersFromSnapshot

\* C7: dirty changes from true to false only in a step that is a successful
\* Save or a successful Open.
C7_ClearedOnlyBySuccess ==
    [][(dirty /\ ~dirty') => (ev'.msg \in {"SaveFile", "OpenFile"} /\ ev'.io = "ok")]_vars

\* C8: an OpenFile whose dialog returns p and whose read of p yields t results
\* in path = p, a buffer made of t whose text is t, and dirty = false.
C8_OpenLoads ==
    [][(ev'.msg = "OpenFile" /\ ev'.io = "ok")
          => /\ path' = ev'.picked
             /\ content' = with_text(disk[ev'.picked].data)
             /\ text(content') = disk[ev'.picked].data
             /\ ~dirty']_vars

\* A file holding text has just been opened.
C8_Witness ==
    /\ ev.msg = "OpenFile" /\ ev.io = "ok"
    /\ path = ev.picked /\ Size(content) > 0 /\ ~dirty

\* C10: a NewFile is possible in every state and results in path = none and
\* an empty buffer.
C10_NewResets ==
    /\ [](ENABLED NewFile)
    /\ [][ev'.msg = "NewFile" => (path' = None /\ content' = Content_new)]_vars

\* A NewFile has just been handled on a document that had been opened from a file.
C10_Witness ==
    ev.msg = "NewFile" /\ path = None /\ ~dirty /\ snapshot.present

-----------------------------------------------------------------------------
(* Properties of the collaborators' failures and of the view *)

\* C11: no failure outcome of a collaborator (dialog cancelled, read or write
\* failure, unavailable working directory) crashes the core: every message
\* completes without a panic.
C11_NeverPanics == ~Panicked

\* A key press was routed.
Routed == ev # NoEvent

\* C12: with the command modifier held, the character keys "s", "o" and "n"
\* yield Save, Open and New; every other key, and every key without the
\* command modifier, yields no message, whatever the document state.
C12_ShortcutRouter ==
    Routed =>
        LET cmd == command(ev.modifiers, ev.platform)
            shortcut == cmd /\ ev.key \in {<<"Character", c>> : c \in {"s", "o", "n"}}
        IN  /\ (cmd /\ ev.key = <<"Character", "s">>) => ev.msg = "SaveFile"
            /\ (cmd /\ ev.key = <<"Character", "o">>) => ev.msg = "OpenFile"
            /\ (cmd /\ ev.key = <<"Character", "n">>) => ev.msg = "NewFile"
            /\ ~shortcut => ev.msg = "none"

\* Command+Shift+s has just been routed to Save on a clean document.
C12_Witness ==
    /\ Routed /\ ev.msg = "SaveFile"
    /\ "SHIFT" \in ev.modifiers /\ ~dirty

\* What Editor::view renders: all of the Editor, and nothing else.
Visible == <<path, content, dirty, color_theme, highlighter_theme>>

\* C13: every read or write failure is reported to the user-visible layer:
\* what the view shows after a failed read differs from what it shows after a
\* cancelled dialog (nothing changed), and what it shows after a failed write
\* differs from what it shows after a successful one (path set, dirty cleared).
C13_FailuresReported ==
    [][/\ (ev'.msg = "OpenFile" /\ ev'.io = "fail") => Visible' # Visible
       /\ FailedSave(ev') =>
              Visible' # <<IF path = None THEN ev'.picked ELSE path, content, FALSE,
                           color_theme, highlighter_theme>>]_vars

\* The extensions the highlighter has a grammar for, among those the paths
\* of the model can have: "c" and "txt".  It has none for "a", for "ac", or
\* for the empty extension of a name that ends in '.'.
KnownExtensions == {<<"c">>, TXT}

\* e is the suffix of the file name n: n is b.e with b not empty and no '.' in e.
IsSuffixOf(e, n) ==
    \E i \in 2 .. Len(n) :
        /\ n[i] = "."
        /\ e = SubSeq(n, i + 1, Len(n))
        /\ \A j \in i + 1 .. Len(n) : n[j] # "."

\* The path has a file name with a suffix that is valid Unicode.
HasSuffix(p) ==
    /\ p # None /\ file_name(p) # None
    /\ \E i \in 2 .. Len(file_name(p)) :
           /\ file_name(p)[i] = "."
           /\ \A j \in i + 1 .. Len(file_name(p)) : file_name(p)[j] \notin {".", BadChar}

\* The path has a file name with a suffix the highlighter has a grammar for.
HasKnownSuffix(p) ==
    HasSuffix(p) /\ \E e \in KnownExtensions : IsSuffixOf(e, file_name(p))

\* C14 as claimed: the extension handed to the highlighter is the suffix of
\* the current path, and "txt" when path is none or the path has no suffix or
\* an unknown one.
C14_ExtensionFromPath ==
    ev.msg = "view" =>
        IF HasKnownSuffix(path) THEN IsSuffixOf(ev.extension, file_name(path))
        ELSE ev.extension = TXT

\* C14 as amended: the extension handed to the highlighter is the suffix of
\* the current path whenever its file name has one that is valid Unicode,
\* known to the highlighter or not, and "txt" when path is none or the file
\* name has no such suffix; it is determined by path alone.
C14_ExtensionIsSuffix ==
    ev.msg = "view" =>
        IF HasSuffix(path) THEN IsSuffixOf(ev.extension, file_name(path))
        ELSE ev.extension = TXT

\* A path with a suffix the highlighter has no grammar for has been rendered
\* on a dirty document, and the suffix was handed over as it is.
C14_Witness ==
    /\ ev.msg = "view" /\ ev.extension = <<"a">> /\ ev.extension \notin KnownExtensions
    /\ path = <<"/", "c", ".", "a">> /\ dirty

-----------------------------------------------------------------------------
(* Properties of the editor actions *)

\* The cursor of c is at the start of the document.
AtStart(c) == c.cursor = Pos(0, 0)

\* A step that applied Backspace to a buffer whose cursor was at (0,0), with
\* nothing selected.
BackspaceAtStart ==
    /\ ev'.action = <<"Edit", "Backspace">>
    /\ AtStart(content) /\ content.selection = <<>>

\* C15 as claimed: a Backspace at (0,0) is a no-op: text, cursor and the
\* document state that wraps the buffer are after it what they were before.
C15_BackspaceAtStartNoOp ==
    [][BackspaceAtStart => UNCHANGED <<path, content, dirty>>]_vars

\* C15 as amended: a Backspace at (0,0) leaves text, cursor and path as they
\* were, and sets dirty, as every edit action does.
C15_BackspaceAtStartKeepsBuffer ==
    [][BackspaceAtStart => (content' = content /\ path' = path /\ dirty')]_vars

\* Backspace has just been applied and has left the cursor at (0,0) of a full
\* buffer of three lines, of a document with a path: no larger buffer exists,
\* so the Backspace removed nothing, and the cursor was at (0,0) before it too,
\* with nothing selected.
C15_Witness ==
    /\ ev.action = <<"Edit", "Backspace">> /\ AtStart(content)
    /\ Size(content) = MaxBuf /\ Len(content.lines) = 3 /\ path # None /\ dirty

\* The cursor of c is on a line of c, at or before the end of that line.
CursorValid(c) ==
    /\ c.cursor.line \in 0 .. Len(c.lines) - 1
    /\ c.cursor.col \in 0 .. Len(c.lines[c.cursor.line + 1])

\* C16: after any sequence of editor actions and New/Open commands the cursor
\* line index is less than the line count and the cursor column index is at
\* most the length of that line.
C16_CursorValid == CursorValid(content)

\* A click below and to the right of the text has just been applied to a
\* buffer whose second line is shorter than its first, in a document that was
\* opened from a file: the cursor is at the end of the second line.
C16_Witness ==
    /\ ev.msg = "EditorAction" /\ ev.action = <<"Click", Pos(2, 2)>>
    /\ content.lines = << <<"a", "a">>, <<>> >> /\ content.cursor = Pos(1, 0)
    /\ path # None

\* C20: an EditorAction that is not an edit leaves dirty and path unchanged,
\* and dirty is set only by a step that applies an edit action.
C20_OnlyEditsSetDirty ==
    [][/\ (ev'.msg = "EditorAction" /\ ~is_edit(ev'.action)) => UNCHANGED <<dirty, path>>
       /\ (~dirty /\ dirty') => (ev'.msg = "EditorAction" /\ is_edit(ev'.action))]_vars

\* A cursor movement has just been applied to a clean document and has moved
\* the cursor.
C20_Witness ==
    /\ ev.msg = "EditorAction" /\ ~is_edit(ev.action)
    /\ ~dirty /\ path # None /\ ~AtStart(content)

-----------------------------------------------------------------------------
(* Properties of the themes, of the initial state and of New *)

\* C17: a ColorThemeChange changes only color_theme and a
\* HighlighterThemeChange only highlighter_theme; neither changes the other
\* theme, path, buffer content or dirty.
C17_ThemesIndependent ==
    [][/\ ev'.msg = "ColorThemeChange"
              => UNCHANGED <<highlighter_theme, path, content, dirty>>
       /\ ev'.msg = "HighlighterThemeChange"
              => UNCHANGED <<color_theme, path, content, dirty>>]_vars

\* The color theme has just been changed while the syntax theme was not the
\* initial one, on a clean document.
C17_Witness ==
    /\ ev.msg = "ColorThemeChange" /\ color_theme = "Light"
    /\ highlighter_theme = "SolarizedDark" /\ ~dirty

\* C18: the initial state is Untitled with an empty buffer: path = none,
\* content empty, dirty = true.
C18_InitialState ==
    ev = NoEvent => (path = None /\ content = Content_new /\ text(content) = <<>> /\ dirty)

\* The editor has just started, next to a file that exists.
C18_Witness == ev = NoEvent /\ \E p \in Paths : disk[p].present

\* C19: a NewFile leaves dirty exactly as it was.
C19_NewKeepsDirty == [][ev'.msg = "NewFile" => dirty' = dirty]_vars

\* A NewFile has just been handled on a clean document: path = none, the
\* buffer is empty, dirty = false, and the Save button emits no message.
C19_Witness ==
    /\ ev.msg = "NewFile" /\ path = None /\ content = Content_new
    /\ ~dirty /\ save_button(dirty) = "none"

=============================================================================
